---- MODULE Spec2Model ----
(***************************************************************************)
(* The sequence and page drivers of spex (src/unnamed/part_002 and         *)
(* src/lib/ext/page.js) as a state machine.                                *)
(*                                                                         *)
(* One run of one driver is modelled.  JavaScript is single threaded and   *)
(* runs every callback to completion, so a state of the model is a state   *)
(* of the run between two synchronous pieces of code:                      *)
(*   pc = "new"   the driver has not been called yet;                      *)
(*   pc = "loop"  loop(idx) is about to be entered on the current stack;   *)
(*   pc = "idle"  the stack is empty, and the run goes on only when one of *)
(*                the continuations in `pending` is run by the scheduler.  *)
(* The user callbacks source and dest are the environment: each call       *)
(* throws, returns a plain value, or returns a deferred that is settled    *)
(* later by a separate action.                                             *)
(***************************************************************************)
EXTENDS Integers, Sequences, FiniteSets, TLC

\* ------------------------------------------------------------------ bounds

\* Largest number of source calls explored in one run.
MaxCalls == 3
\* Largest limit argument passed to a driver.
MaxLimit == 2
\* Largest reading of the clock (Date.now(), in milliseconds since Init).
MaxClock == 1

\* ------------------------------------------------------------------ values

\* JavaScript values, all of one record shape: a tag and a payload.
Val(tag, payload) == [t |-> tag, v |-> payload]

UNDEF == Val("undefined", <<>>)
NULL == Val("null", <<>>)
Num(n) == Val("number", <<n>>)
Bool(b) == Val("boolean", <<b>>)
Str(s) == Val("string", <<s>>)
Arr(s) == Val("array", s)

\* Markers used only in the call histories.
PENDING == Val("pending", <<>>)
THROWN == Val("thrown", <<>>)
REJECTED == Val("rejected", <<>>)
RETURNED == Val("returned", <<>>)
RESOLVED == Val("resolved", <<>>)

\* A number that is undefined or absent: the delay argument of the first
\* call of a callback, a property the object does not have.
NoNumber == -1

\* Mutant of IsUndefined: a test by truthiness, !value.
IsFalsy(value) ==
    \/ value.t \in {"undefined", "null"}
    \/ value \in {Num(0), Bool(FALSE), Str("")}

\* data === undefined / value === undefined
IsUndefined(value) == value.t = "undefined"

\* Mutant of IsArray: a test by typeof value === 'object', which null passes.
IsArrayOrNull(value) == value.t \in {"array", "batch", "null"}

\* value instanceof Array: true of a page and of a batch outcome.
IsArray(value) == value.t \in {"array", "batch"}

\* Values the source of a sequence resolves with at index i: undefined, or
\* one of the values that only a test by truthiness would take for it.
SeqValues(i) ==
    {UNDEF} \cup (IF i % 2 = 0 THEN {NULL, Num(0)} ELSE {Bool(FALSE), Str("")})

\* Values the source of a page resolves with.  An element n > 0 of a page is
\* a mixed value that resolves with n, an element n < 0 one that fails.
PageValues == {UNDEF, NULL, Num(42), Arr(<<>>), Arr(<<1, 2>>), Arr(<<1, -2>>)}

\* How a call of a user callback ends on the calling stack.
CallModes == {"throw", "plain", "deferred"}

\* What the history records when a call ends that way.
CallResult(mode) ==
    IF mode = "throw" THEN THROWN ELSE IF mode = "deferred" THEN PENDING ELSE RETURNED

\* ------------------------------------------------- collaborators (not in src)

\* $utils.resolve: the second argument of the failure callback says whether
\* the failure is a rejected deferred (true) or a thrown exception (false).
IsRejection(how) == how = "rejected"

\* $utils.resolve: `delayed` is true iff a deferred was awaited.
IsDelayed(how) == how = "deferred"

\* $spex.batch: the batch of a page succeeds iff every element resolves.
BatchSucceeds(page) == \A k \in DOMAIN page.v : page.v[k] > 0

\* $spex.batch: the outcome of a page whose elements all resolved, one row
\* for each element and in the order of the page; the row of an element
\* that resolved with n is written 100 + n.
BatchOutcome(page) == Val("batch", [k \in DOMAIN page.v |-> 100 + page.v[k]])

\* -------------------------------------------------------------------- state

VARIABLES
    cfg,          \* the arguments of the run, after normalisation
    pc,           \* "new", "loop" or "idle" (see above)
    idx,          \* idx of the loop frame being entered or just left
    depth,        \* loop() frames on the current stack, with the one being entered
    now,          \* the clock
    start,        \* var start
    srcTime,      \* var srcTime (NoNumber: undefined)
    destTime,     \* var destTime (NoNumber: undefined)
    data,         \* sequence: var data
    result,       \* sequence: var result (the tracked values)
    request,      \* page: var request
    total,        \* page: var total
    pending,      \* continuations registered on unsettled deferreds
    srcCalls,     \* history: the calls of source, in order
    destCalls,    \* history: the calls of dest, in order
    batches,      \* history: the calls of $spex.batch, in order
    settlements,  \* history: the calls of resolve and reject, in order
    adapter,      \* library: the last new PromiseAdapter(...), arguments and outcome
    inst,         \* library: the last main(...), argument and outcome
    made,         \* library: the last inst.$p(executor), instance and outcome
    runs,         \* several runs: the local variables of each call of a driver
    seen          \* several runs: what each run's source saw and how the run ended

runVars == <<cfg, pc, idx, depth, now, start, srcTime, destTime, data, result,
             request, total, pending, srcCalls, destCalls, batches, settlements>>
libVars == <<adapter, inst, made>>
fleetVars == <<runs, seen>>
vars == <<runVars, libVars, fleetVars>>

\* A continuation waiting for a deferred: of the source ("src"), of dest
\* ("dest"), of $spex.batch ("batch"), or of $p.resolve() ("yield").
Cont(kind, i, pg, d) == [kind |-> kind, idx |-> i, page |-> pg, data |-> d]

\* A call of a user callback, as recorded in the histories.
CallRec(i, d, at, delay, res) ==
    [idx |-> i, data |-> d, at |-> at, delay |-> delay, res |-> res]

\* The history `h` with the result of its last call of index i set to r.
SetRes(h, i, r) ==
    [k \in DOMAIN h |-> IF h[k].idx = i /\ h[k].res = PENDING
                        THEN [h[k] EXCEPT !.res = r] ELSE h[k]]

\* An argument in the place of dest, by typeof: undefined, null, a function,
\* or an object with the fields dest, limit and track (an absent limit is
\* 0: undefined > 0 is false as well).  DestKinds(options) are the kinds
\* tried for dest, as a field of an options object or as the argument.
Arg(kind, dest, limit, track) == [kind |-> kind, dest |-> dest, limit |-> limit, track |-> track]
Plain(kind) == Arg(kind, "undefined", 0, FALSE)
Options(dest, limit, track) == Arg("object", dest, limit, track)
DestKinds(options) ==
    IF options THEN {"undefined", "function"} ELSE {"undefined", "null", "function"}

\* The limits tried: absent or 0, 1..MaxLimit, and as an argument -1 too.
Limits(options) == IF options THEN 0..MaxLimit ELSE -1..MaxLimit

\* if (dest): undefined and null are falsy.
Truthy(kind) == kind \in {"function", "object"}

\* dest && typeof dest === 'object'; typeof null is 'object' too.
IsOptions(second) == Truthy(second.kind) /\ second.kind \in {"object", "null"}

\* Mutant of SeqArgs: the limit is always taken from the third argument.
SeqArgsPositionalLimit(second, third, fourth) ==
    IF IsOptions(second)
    THEN [dest |-> second.dest, limit |-> third, track |-> second.track]
    ELSE [dest |-> second.kind, limit |-> third, track |-> fourth]

\* The exported sequence(source, dest, limit, track): what it passes on.
SeqArgs(second, third, fourth) ==
    IF IsOptions(second)
    THEN [dest |-> second.dest, limit |-> second.limit, track |-> second.track]
    ELSE [dest |-> second.kind, limit |-> third, track |-> fourth]

\* The exported page(source, dest, limit): what it passes on.
PageArgs(second, third) ==
    IF IsOptions(second)
    THEN [dest |-> second.dest, limit |-> second.limit]
    ELSE [dest |-> second.kind, limit |-> third]

\* The positional limit given next to an options object, chosen to differ
\* in effect from the object's own.
OtherLimit(limitArg) == IF limitArg > 0 THEN 0 ELSE 1

\* The runs started side by side on one library instance.
RunIds == {1, 2}

\* The variables one call of sequence or page works with: its parameters
\* limit and track, its var declarations (data and result for sequence,
\* request and total for page), and the idx of its current loop frame.
Locals(limit, track) ==
    [limit |-> limit, track |-> track, idx |-> 0, data |-> UNDEF,
     result |-> <<>>, request |-> UNDEF, total |-> 0]
NoLocals == Locals(0, FALSE)

\* A run's outcome: not settled yet, resolved, or rejected with a code and
\* an index.
Outcome(state, code, index, items, tot, pages) ==
    [state |-> state, code |-> code, index |-> index, items |-> items,
     total |-> tot, pages |-> pages]
NoOutcome == Outcome("pending", NoNumber, NoNumber, <<>>, NoNumber, NoNumber)

\* What is on record of one run: the call that started it, the source calls
\* it made, the responses they got, and its outcome.
Seen(kind, limit, track, calls, responses, out) ==
    [kind |-> kind, limit |-> limit, track |-> track, calls |-> calls,
     responses |-> responses, out |-> out]
NotStarted == Seen("none", 0, FALSE, <<>>, <<>>, NoOutcome)

\* No call of the operation so far.
NoCall == [args |-> <<>>, out |-> UNDEF]

Init ==
    /\ cfg = [kind |-> "none", sourceOk |-> FALSE, second |-> Plain("undefined"),
              third |-> 0, fourth |-> FALSE, hasDest |-> FALSE,
              limitArg |-> 0, limit |-> 0, track |-> FALSE]
    /\ pc = "new"
    /\ idx = 0
    /\ depth = 0
    /\ now = 0
    /\ start = 0
    /\ srcTime = NoNumber
    /\ destTime = NoNumber
    /\ data = UNDEF
    /\ result = <<>>
    /\ request = UNDEF
    /\ total = 0
    /\ pending = {}
    /\ srcCalls = <<>>
    /\ destCalls = <<>>
    /\ batches = <<>>
    /\ settlements = <<>>
    /\ adapter = NoCall
    /\ inst = NoCall
    /\ made = NoCall
    /\ runs = [s \in RunIds |-> NoLocals]
    /\ seen = [r \in RunIds |-> NotStarted]

\* ------------------------------------------------------- settlement records

\* The attributes of a property created by assignment or by an object
\* literal, such as duration in {total: idx, duration: length}.
OpenAttr == [configurable |-> TRUE, enumerable |-> TRUE, writable |-> TRUE]

\* Mutant of extend: the property is left enumerable.
extendEnumerable(obj, name, value) ==
    [obj EXCEPT ![name] = value,
                ![name \o "Attr"] = [configurable |-> FALSE, enumerable |-> TRUE,
                                     writable |-> FALSE]]

\* $utils.extend(obj, name, value): Object.defineProperty with configurable,
\* enumerable and writable all false.
extend(obj, name, value) ==
    [obj EXCEPT ![name] = value,
                ![name \o "Attr"] = [configurable |-> FALSE, enumerable |-> FALSE,
                                     writable |-> FALSE]]

\* What resolve or reject was called with.  One record shape for all:
\* err names the error type, srcSet / destSet say whether the reason object
\* has the property source / dest (its value may still be undefined).
Settlement(state, err, code, index, cb, error, srcSet, source, destSet, dest, tracked, items, tot, pages, duration) ==
    [state |-> state, err |-> err, code |-> code, index |-> index, cb |-> cb,
     error |-> error, srcSet |-> srcSet, source |-> source,
     destSet |-> destSet, dest |-> dest, tracked |-> tracked, items |-> items,
     total |-> tot, pages |-> pages, duration |-> duration,
     durationAttr |-> OpenAttr]

\* $p.reject(new TypeError("Parameter 'source' must be a function."))
\* Mutant of TypeErrorRejection: the TypeError is thrown at the caller
\* instead of being carried by a rejected deferred.
TypeErrorThrown ==
    Settlement("thrown", "TypeError", NoNumber, NoNumber, "",
               "Parameter 'source' must be a function.",
               FALSE, UNDEF, FALSE, UNDEF, FALSE, <<>>, NoNumber, NoNumber, NoNumber)

TypeErrorRejection ==
    Settlement("rejected", "TypeError", NoNumber, NoNumber, "",
               "Parameter 'source' must be a function.",
               FALSE, UNDEF, FALSE, UNDEF, FALSE, <<>>, NoNumber, NoNumber, NoNumber)

\* The reason objects the drivers build: {error, source}, {error, dest}
\* and {error}.
\* Mutant of SourceReason: the reason object carries dest as well.
SourceReasonWithDest(error, source) ==
    [error |-> error, srcSet |-> TRUE, source |-> source, destSet |-> TRUE, dest |-> source]

SourceReason(error, source) ==
    [error |-> error, srcSet |-> TRUE, source |-> source, destSet |-> FALSE, dest |-> UNDEF]
\* Mutant of DestReason: the data is stored under source instead of dest.
DestReasonAsSource(error, dest) ==
    [error |-> error, srcSet |-> TRUE, source |-> dest, destSet |-> FALSE, dest |-> UNDEF]

DestReason(error, dest) ==
    [error |-> error, srcSet |-> FALSE, source |-> UNDEF, destSet |-> TRUE, dest |-> dest]
BareReason(error) ==
    [error |-> error, srcSet |-> FALSE, source |-> UNDEF, destSet |-> FALSE, dest |-> UNDEF]

\* reject(new SequenceError(reason, code, cbName, Date.now() - start)) and
\* the same with PageError, after reason.index = idx.
ErrorRejection(err, reason, code, cb, i, t) ==
    Settlement("rejected", err, code, i, cb, reason.error, reason.srcSet,
               reason.source, reason.destSet, reason.dest, FALSE, <<>>,
               NoNumber, NoNumber, t - start)

\* Mutant of SeqSuccessValue: total counts the iteration that ended the run.
SeqSuccessValueOffByOne(i, res, t) ==
    IF cfg.track
    THEN extend(Settlement("resolved", "none", NoNumber, NoNumber, "", "", FALSE, UNDEF,
                           FALSE, UNDEF, TRUE, res, NoNumber, NoNumber, NoNumber),
                "duration", t - start)
    ELSE Settlement("resolved", "none", NoNumber, NoNumber, "", "", FALSE, UNDEF,
                    FALSE, UNDEF, FALSE, <<>>, i + 1, NoNumber, t - start)

\* sequence: the value success() resolves with.
SeqSuccessValue(i, res, t) ==
    IF cfg.track
    THEN extend(Settlement("resolved", "none", NoNumber, NoNumber, "", "", FALSE, UNDEF,
                           FALSE, UNDEF, TRUE, res, NoNumber, NoNumber, NoNumber),
                "duration", t - start)
    ELSE Settlement("resolved", "none", NoNumber, NoNumber, "", "", FALSE, UNDEF,
                    FALSE, UNDEF, FALSE, <<>>, i, NoNumber, t - start)

\* page: the value success() resolves with.
PageSuccessValue(i, tot, t) ==
    Settlement("resolved", "none", NoNumber, NoNumber, "", "", FALSE, UNDEF,
               FALSE, UNDEF, FALSE, <<>>, tot, i, t - start)

\* --------------------------------------------------------- shared pieces

\* limit = (limit > 0) ? parseInt(limit) : 0.  The limit arguments of the
\* model are integers, of which parseInt is the number itself.
ParseInt(n) == n
NormalLimit(limitArg) == IF limitArg > 0 THEN ParseInt(limitArg) ELSE 0

\* idx ? (srcNow - srcTime) : undefined, and the same for dest.
\* Mutant of Delay: the time since the run started instead of the time since
\* the previous call.
DelaySinceStart(i, t, last) == IF i # 0 THEN t - start ELSE NoNumber

Delay(i, t, last) == IF i # 0 THEN t - last ELSE NoNumber

\* Mutant of NextIdx: the index is advanced twice.
NextIdxSkip(i) == i + 2

\* Mutant of AddTotal: pages are counted instead of their values.
AddTotalOne(tot, outcome) == tot + 1

\* total += data.length
AddTotal(tot, outcome) == tot + Len(outcome.v)

\* ++idx
NextIdx(i) == i + 1

\* Mutant of LimitReached: the limit is noticed one iteration late.
LimitReachedLate(limit, n) == limit < n

\* limit === ++idx
LimitReached(limit, n) == limit = n

\* Mutant of IsPromise: a deferred returned by dest is not recognised.
IsPromiseNever(mode) == FALSE

\* $utils.isPromise(destResult)
IsPromise(mode) == mode = "deferred"

\* Mutant of SeqSourceCode: the two codes are swapped.
SeqSourceCodeSwapped(isRej) == IF isRej THEN 1 ELSE 0

\* Mutant of PageSourceCode: one code for both ways of failing.
PageSourceCodeSame(isRej) == 1

\* sequence: isRej ? 0 : 1
SeqSourceCode(isRej) == IF isRej THEN 0 ELSE 1

\* page: isRej ? 1 : 2
PageSourceCode(isRej) == IF isRej THEN 1 ELSE 2

\* The control state a piece of code leaves behind: where the run stands,
\* the continuations registered, the settlements made.  The stack is empty
\* again when control returns to the scheduler.
Ctl(pc2, idx2, pending2, settlements2) ==
    /\ pc' = pc2
    /\ idx' = idx2
    /\ pending' = pending2
    /\ settlements' = settlements2
    /\ depth' = IF pc2 = "idle" THEN 0 ELSE depth + 1

\* The clock moves on by dt before a continuation runs.
Tick(dt) == now' = now + dt
Ticks == {dt \in 0..1 : now + dt <= MaxClock}

\* ---------------------------------------------------------------- sequence

\* success() of the loop frame with index i; P: the continuations left.
SeqSuccess(i, res, P, t) ==
    Ctl("idle", i, P, Append(settlements, SeqSuccessValue(i, res, t)))

\* Mutant of SeqFail: the index is taken after ++idx.
SeqFailNextIndex(i, reason, code, cb, P, t) ==
    Ctl("idle", i, P,
        Append(settlements,
               ErrorRejection("SequenceError", reason, code, cb, NextIdx(i), t)))

\* fail(reason, code, cbName) of the loop frame with index i.
SeqFail(i, reason, code, cb, P, t) ==
    Ctl("idle", i, P,
        Append(settlements, ErrorRejection("SequenceError", reason, code, cb, i, t)))

\* next(delayed) of the loop frame with index i.
\* Mutant of SeqNext: loop(idx) is called directly whether or not the
\* iteration was delayed.
SeqNextDirect(i, delayed, res, P, t) ==
    LET n == NextIdx(i) IN
    IF LimitReached(cfg.limit, n)
    THEN SeqSuccess(n, res, P, t)
    ELSE Ctl("loop", n, P, settlements)

\* Mutant of SeqNext: after an iteration that was not delayed nothing is
\* scheduled.
SeqNextNoYield(i, delayed, res, P, t) ==
    LET n == NextIdx(i) IN
    IF LimitReached(cfg.limit, n)
    THEN SeqSuccess(n, res, P, t)
    ELSE IF delayed
         THEN Ctl("loop", n, P, settlements)
         ELSE Ctl("idle", n, P, settlements)

SeqNext(i, delayed, res, P, t) ==
    LET n == NextIdx(i) IN
    IF LimitReached(cfg.limit, n)
    THEN SeqSuccess(n, res, P, t)
    ELSE IF delayed
         THEN Ctl("loop", n, P, settlements)
         ELSE Ctl("idle", n, P \cup {Cont("yield", n, UNDEF, UNDEF)}, settlements)

\* Mutant of SeqDestThrew: the catch block lacks its return, and the code
\* after it goes on to next(delayed).
SeqDestThrewFallThrough(i, value, delayed, res, P, t) ==
    Ctl(IF delayed THEN "loop" ELSE "idle", NextIdx(i),
        IF delayed THEN P ELSE P \cup {Cont("yield", NextIdx(i), UNDEF, UNDEF)},
        Append(settlements,
               ErrorRejection("SequenceError", DestReason("destError", value), 3, "dest", i, t)))

\* catch (e) { fail({error: e, dest: data}, 3, dest.name); return; }
SeqDestThrew(i, value, delayed, res, P, t) ==
    SeqFail(i, DestReason("destError", value), 3, "dest", P, t)

\* Mutant of SeqDestCall: dest is handed the data of the previous iteration.
SeqDestCallStale(i, value, t, res) == CallRec(i, data, t, Delay(i, t, destTime), res)

\* The arguments dest is called with: dest.call(self, idx, data, destDelay).
SeqDestCall(i, value, t, res) == CallRec(i, value, t, Delay(i, t, destTime), res)

\* The success callback handed to $utils.resolve: function (value, delayed).
SeqOnSuccess(i, value, delayed, P, t) ==
    /\ data' = value
    /\ IF IsUndefined(value)
       THEN /\ SeqSuccess(i, result, P, t)
            /\ UNCHANGED <<result, destTime, destCalls>>
       ELSE LET res == IF cfg.track THEN Append(result, value) ELSE result IN
            /\ result' = res
            /\ IF cfg.hasDest
               THEN \E mode \in CallModes :
                      /\ destTime' = t
                      /\ destCalls' = Append(destCalls, SeqDestCall(i, value, t, CallResult(mode)))
                      /\ IF mode = "throw"
                         THEN SeqDestThrew(i, value, delayed, res, P, t)
                         ELSE IF IsPromise(mode)
                         THEN Ctl("idle", i, P \cup {Cont("dest", i, UNDEF, UNDEF)}, settlements)
                         ELSE SeqNext(i, delayed, res, P, t)
               ELSE /\ UNCHANGED <<destTime, destCalls>>
                    /\ SeqNext(i, delayed, res, P, t)

\* The failure callback handed to $utils.resolve: function (reason, isRej).
SeqOnError(i, isRej, P, t) ==
    /\ SeqFail(i, SourceReason("sourceError", data), SeqSourceCode(isRej), "source", P, t)
    /\ UNCHANGED <<data, result, destTime, destCalls>>

\* sequence(source, dest, limit, track): the checks and the normalisation
\* of the arguments, then the executor up to its call of loop(0).
Sequence ==
    /\ pc = "new"
    /\ \E sourceOk \in BOOLEAN, options \in BOOLEAN, track \in BOOLEAN :
         \E destKind \in DestKinds(options), limitArg \in Limits(options) :
         LET second == IF options THEN Options(destKind, limitArg, track)
                                  ELSE Plain(destKind)
             third  == IF options THEN OtherLimit(limitArg) ELSE limitArg
             fourth == IF options THEN ~track ELSE track
             a      == SeqArgs(second, third, fourth)
         IN
         /\ cfg' = [kind |-> "sequence", sourceOk |-> sourceOk, second |-> second,
                    third |-> third, fourth |-> fourth, hasDest |-> Truthy(a.dest),
                    limitArg |-> a.limit, limit |-> NormalLimit(a.limit),
                    track |-> a.track]
         /\ IF ~sourceOk
            THEN Ctl("idle", 0, {}, <<TypeErrorRejection>>)
            ELSE Ctl("loop", 0, {}, <<>>)
    /\ start' = now
    /\ UNCHANGED <<now, srcTime, destTime, data, result, request, total,
                   srcCalls, destCalls, batches>>
    /\ UNCHANGED <<libVars, fleetVars>>

\* loop(idx): the source is called through $utils.resolve; what follows on
\* the same stack depends on how the call ends.
SeqLoop ==
    /\ pc = "loop"
    /\ cfg.kind = "sequence"
    /\ Len(srcCalls) < MaxCalls
    /\ srcTime' = now
    /\ \E mode \in CallModes :
         IF mode = "throw"
         THEN /\ srcCalls' = Append(srcCalls, CallRec(idx, data, now, Delay(idx, now, srcTime), THROWN))
              /\ SeqOnError(idx, IsRejection("thrown"), pending, now)
         ELSE IF mode = "deferred"
         THEN /\ srcCalls' = Append(srcCalls, CallRec(idx, data, now, Delay(idx, now, srcTime), PENDING))
              /\ Ctl("idle", idx, pending \cup {Cont("src", idx, UNDEF, UNDEF)}, settlements)
              /\ UNCHANGED <<data, result, destTime, destCalls>>
         ELSE \E value \in SeqValues(idx) :
              /\ srcCalls' = Append(srcCalls, CallRec(idx, data, now, Delay(idx, now, srcTime), value))
              /\ SeqOnSuccess(idx, value, IsDelayed(mode), pending, now)
    /\ UNCHANGED <<cfg, now, start, request, total, batches>>
    /\ UNCHANGED <<libVars, fleetVars>>

\* The deferred the source returned resolves with a value.
SeqSourceResolved ==
    /\ pc = "idle"
    /\ cfg.kind = "sequence"
    /\ \E c \in pending, dt \in Ticks :
         \E value \in SeqValues(c.idx) :
         /\ c.kind = "src"
         /\ Tick(dt)
         /\ srcCalls' = SetRes(srcCalls, c.idx, value)
         /\ SeqOnSuccess(c.idx, value, IsDelayed("deferred"), pending \ {c}, now + dt)
    /\ UNCHANGED <<cfg, start, srcTime, request, total, batches>>
    /\ UNCHANGED <<libVars, fleetVars>>

\* The deferred the source returned rejects.
SeqSourceRejected ==
    /\ pc = "idle"
    /\ cfg.kind = "sequence"
    /\ \E c \in pending, dt \in Ticks :
         /\ c.kind = "src"
         /\ Tick(dt)
         /\ srcCalls' = SetRes(srcCalls, c.idx, REJECTED)
         /\ SeqOnError(c.idx, IsRejection("rejected"), pending \ {c}, now + dt)
    /\ UNCHANGED <<cfg, start, srcTime, request, total, batches>>
    /\ UNCHANGED <<libVars, fleetVars>>

\* The deferred dest returned resolves: .then(function () { next(true) }).
SeqDestResolved ==
    /\ pc = "idle"
    /\ cfg.kind = "sequence"
    /\ \E c \in pending, dt \in Ticks :
         /\ c.kind = "dest"
         /\ Tick(dt)
         /\ destCalls' = SetRes(destCalls, c.idx, RESOLVED)
         /\ SeqNext(c.idx, TRUE, result, pending \ {c}, now + dt)
    /\ UNCHANGED <<cfg, start, srcTime, destTime, data, result, request, total,
                   srcCalls, batches>>
    /\ UNCHANGED <<libVars, fleetVars>>

\* The deferred dest returned rejects: .catch(function (error) { fail(...) }).
SeqDestRejected ==
    /\ pc = "idle"
    /\ cfg.kind = "sequence"
    /\ \E c \in pending, dt \in Ticks :
         /\ c.kind = "dest"
         /\ Tick(dt)
         /\ destCalls' = SetRes(destCalls, c.idx, REJECTED)
         /\ SeqFail(c.idx, DestReason("destError", data), 2, "dest", pending \ {c}, now + dt)
    /\ UNCHANGED <<cfg, start, srcTime, destTime, data, result, request, total,
                   srcCalls, batches>>
    /\ UNCHANGED <<libVars, fleetVars>>

\* $p.resolve().then(function () { loop(idx) }): the scheduler runs the
\* continuation on a fresh stack.
SeqYield ==
    /\ pc = "idle"
    /\ cfg.kind = "sequence"
    /\ \E c \in pending, dt \in Ticks :
         /\ c.kind = "yield"
         /\ Tick(dt)
         /\ Ctl("loop", c.idx, pending \ {c}, settlements)
    /\ UNCHANGED <<cfg, start, srcTime, destTime, data, result, request, total,
                   srcCalls, destCalls, batches>>
    /\ UNCHANGED <<libVars, fleetVars>>

\* -------------------------------------------------------------------- page

\* success() of the loop frame with index i; P: the continuations left.
PageSuccess(i, tot, P, t) ==
    Ctl("idle", i, P, Append(settlements, PageSuccessValue(i, tot, t)))

\* fail(reason, code, cbName) of the loop frame with index i.
PageFail(i, reason, code, cb, P, t) ==
    Ctl("idle", i, P,
        Append(settlements, ErrorRejection("PageError", reason, code, cb, i, t)))

\* next() of the loop frame with index i.
\* Mutant of PageNext: success() is not followed by an else, and loop(idx)
\* is entered after the run resolved.
PageNextNoElse(i, tot, P, t) ==
    LET n == NextIdx(i) IN
    IF LimitReached(cfg.limit, n)
    THEN Ctl("loop", n, P, Append(settlements, PageSuccessValue(n, tot, t)))
    ELSE Ctl("loop", n, P, settlements)

PageNext(i, tot, P, t) ==
    LET n == NextIdx(i) IN
    IF LimitReached(cfg.limit, n)
    THEN PageSuccess(n, tot, P, t)
    ELSE Ctl("loop", n, P, settlements)

\* The arguments dest is called with: dest.call(self, idx, data, destDelay).
PageDestCall(i, outcome, t, res) == CallRec(i, outcome, t, Delay(i, t, destTime), res)

\* The success callback handed to $utils.resolve: function (value).
PageOnSuccess(i, value, P, t) ==
    /\ IF IsUndefined(value)
       THEN /\ PageSuccess(i, total, P, t)
            /\ UNCHANGED batches
       ELSE IF IsArray(value)
       THEN /\ batches' = Append(batches, CallRec(i, value, t, NoNumber, PENDING))
            /\ Ctl("idle", i, P \cup {Cont("batch", i, value, UNDEF)}, settlements)
       ELSE /\ PageFail(i, SourceReason("Unexpected data returned from the source.", request),
                        5, "source", P, t)
            /\ UNCHANGED batches
    /\ UNCHANGED <<request, total, destTime, destCalls>>

\* The failure callback handed to $utils.resolve: function (reason, isRej).
PageOnError(i, isRej, P, t) ==
    /\ PageFail(i, SourceReason("sourceError", request), PageSourceCode(isRej), "source", P, t)
    /\ UNCHANGED <<request, total, destTime, destCalls, batches>>

\* page(source, dest, limit): the checks and the normalisation of the
\* arguments, then the executor up to its call of loop(0).
Page ==
    /\ pc = "new"
    /\ \E sourceOk \in BOOLEAN, options \in BOOLEAN :
         \E destKind \in DestKinds(options), limitArg \in Limits(options) :
         LET second == IF options THEN Options(destKind, limitArg, FALSE)
                                  ELSE Plain(destKind)
             third  == IF options THEN OtherLimit(limitArg) ELSE limitArg
             a      == PageArgs(second, third)
         IN
         /\ cfg' = [kind |-> "page", sourceOk |-> sourceOk, second |-> second,
                    third |-> third, fourth |-> FALSE, hasDest |-> Truthy(a.dest),
                    limitArg |-> a.limit, limit |-> NormalLimit(a.limit),
                    track |-> FALSE]
         /\ IF ~sourceOk
            THEN Ctl("idle", 0, {}, <<TypeErrorRejection>>)
            ELSE Ctl("loop", 0, {}, <<>>)
    /\ start' = now
    /\ UNCHANGED <<now, srcTime, destTime, data, result, request, total,
                   srcCalls, destCalls, batches>>
    /\ UNCHANGED <<libVars, fleetVars>>

\* loop(idx): the source is called through $utils.resolve.
PageLoop ==
    /\ pc = "loop"
    /\ cfg.kind = "page"
    /\ Len(srcCalls) < MaxCalls
    /\ srcTime' = now
    /\ \E mode \in CallModes :
         IF mode = "throw"
         THEN /\ srcCalls' = Append(srcCalls, CallRec(idx, request, now, Delay(idx, now, srcTime), THROWN))
              /\ PageOnError(idx, IsRejection("thrown"), pending, now)
         ELSE IF mode = "deferred"
         THEN /\ srcCalls' = Append(srcCalls, CallRec(idx, request, now, Delay(idx, now, srcTime), PENDING))
              /\ Ctl("idle", idx, pending \cup {Cont("src", idx, UNDEF, UNDEF)}, settlements)
              /\ UNCHANGED <<request, total, destTime, destCalls, batches>>
         ELSE \E value \in PageValues :
              /\ srcCalls' = Append(srcCalls, CallRec(idx, request, now, Delay(idx, now, srcTime), value))
              /\ PageOnSuccess(idx, value, pending, now)
    /\ UNCHANGED <<cfg, now, start, data, result>>
    /\ UNCHANGED <<libVars, fleetVars>>

\* The deferred the source returned resolves with a value.
PageSourceResolved ==
    /\ pc = "idle"
    /\ cfg.kind = "page"
    /\ \E c \in pending, dt \in Ticks, value \in PageValues :
         /\ c.kind = "src"
         /\ Tick(dt)
         /\ srcCalls' = SetRes(srcCalls, c.idx, value)
         /\ PageOnSuccess(c.idx, value, pending \ {c}, now + dt)
    /\ UNCHANGED <<cfg, start, srcTime, data, result>>
    /\ UNCHANGED <<libVars, fleetVars>>

\* The deferred the source returned rejects.
PageSourceRejected ==
    /\ pc = "idle"
    /\ cfg.kind = "page"
    /\ \E c \in pending, dt \in Ticks :
         /\ c.kind = "src"
         /\ Tick(dt)
         /\ srcCalls' = SetRes(srcCalls, c.idx, REJECTED)
         /\ PageOnError(c.idx, IsRejection("rejected"), pending \ {c}, now + dt)
    /\ UNCHANGED <<cfg, start, srcTime, data, result>>
    /\ UNCHANGED <<libVars, fleetVars>>

\* $spex.batch(value) resolves: .then(function (data) { ... }).
\* Mutant of NextRequest: the page as the source gave it is kept for the next
\* source call, not its batch outcome.
NextRequestIsPage(page, outcome) == page

\* request = data: what the next source call is given, by the page the
\* source returned and the outcome of its batch.
NextRequest(page, outcome) == outcome

PageBatchResolved ==
    /\ pc = "idle"
    /\ cfg.kind = "page"
    /\ \E c \in pending, dt \in Ticks :
         /\ c.kind = "batch"
         /\ BatchSucceeds(c.page)
         /\ Tick(dt)
         /\ LET outcome == BatchOutcome(c.page)
                tot == AddTotal(total, outcome)
                P == pending \ {c}
                t == now + dt
            IN
            /\ batches' = SetRes(batches, c.idx, outcome)
            /\ request' = NextRequest(c.page, outcome)
            /\ total' = tot
            /\ IF cfg.hasDest
               THEN \E mode \in CallModes :
                      /\ destTime' = t
                      /\ destCalls' = Append(destCalls, PageDestCall(c.idx, outcome, t, CallResult(mode)))
                      /\ IF mode = "throw"
                         THEN PageFail(c.idx, DestReason("destError", outcome), 4, "dest", P, t)
                         ELSE IF IsPromise(mode)
                         THEN Ctl("idle", c.idx, P \cup {Cont("dest", c.idx, UNDEF, outcome)}, settlements)
                         ELSE PageNext(c.idx, tot, P, t)
               ELSE /\ UNCHANGED <<destTime, destCalls>>
                    /\ PageNext(c.idx, tot, P, t)
    /\ UNCHANGED <<cfg, start, srcTime, data, result, srcCalls>>
    /\ UNCHANGED <<libVars, fleetVars>>

\* $spex.batch(value) rejects: the trailing .catch(function (error) { ... }).
PageBatchRejected ==
    /\ pc = "idle"
    /\ cfg.kind = "page"
    /\ \E c \in pending, dt \in Ticks :
         /\ c.kind = "batch"
         /\ ~BatchSucceeds(c.page)
         /\ Tick(dt)
         /\ batches' = SetRes(batches, c.idx, REJECTED)
         /\ PageFail(c.idx, BareReason("BatchError"), 0, "", pending \ {c}, now + dt)
    /\ UNCHANGED <<cfg, start, srcTime, destTime, data, result, request, total,
                   srcCalls, destCalls>>
    /\ UNCHANGED <<libVars, fleetVars>>

\* The deferred dest returned resolves: .then(next).
PageDestResolved ==
    /\ pc = "idle"
    /\ cfg.kind = "page"
    /\ \E c \in pending, dt \in Ticks :
         /\ c.kind = "dest"
         /\ Tick(dt)
         /\ destCalls' = SetRes(destCalls, c.idx, RESOLVED)
         /\ PageNext(c.idx, total, pending \ {c}, now + dt)
    /\ UNCHANGED <<cfg, start, srcTime, destTime, data, result, request, total,
                   srcCalls, batches>>
    /\ UNCHANGED <<libVars, fleetVars>>

\* The deferred dest returned rejects: .catch(function (error) { fail(...) }).
PageDestRejected ==
    /\ pc = "idle"
    /\ cfg.kind = "page"
    /\ \E c \in pending, dt \in Ticks :
         /\ c.kind = "dest"
         /\ Tick(dt)
         /\ destCalls' = SetRes(destCalls, c.idx, REJECTED)
         /\ PageFail(c.idx, DestReason("destError", c.data), 3, "dest", pending \ {c}, now + dt)
    /\ UNCHANGED <<cfg, start, srcTime, destTime, data, result, request, total,
                   srcCalls, batches>>
    /\ UNCHANGED <<libVars, fleetVars>>

\* ----------------------------------------- library initialisation (not in src)

\* A function, by what a call of it returns and by whether it carries callable
\* resolve and reject properties, as a promise library's constructor does.
Fn(returns, resolve, reject) ==
    Val("function", [returns |-> returns, resolve |-> resolve, reject |-> reject])

\* var dummy = function () {};
Dummy == Fn(UNDEF, FALSE, FALSE)

\* function () { return 123; }
Returns123 == Fn(Num(123), FALSE, FALSE)

\* The promise library of the tests: new promise(executor) is a deferred.
PromiseLib == Fn(Val("deferred", <<>>), TRUE, TRUE)

\* A function with a resolve but no reject.
HalfLib == Fn(Val("deferred", <<>>), TRUE, FALSE)

\* An error thrown at the caller, by its message.
Thrown(message) == Val("thrown", message)

IsFunction(x) == x.t = "function"
IsAdapter(x) == x.t = "adapter"
IsInstance(x) == x.t = "instance"

\* Mutant of PromiseAdapter: the three callables are checked in the order
\* reject, resolve, create.
PromiseAdapterRejectFirst(create, resolve, reject) ==
    IF ~IsFunction(reject)
    THEN Thrown("Adapter requires a function to reject a promise.")
    ELSE IF ~IsFunction(resolve)
    THEN Thrown("Adapter requires a function to resolve a promise.")
    ELSE IF ~IsFunction(create)
    THEN Thrown("Adapter requires a function to create a promise.")
    ELSE Val("adapter", [create |-> create, resolve |-> resolve, reject |-> reject])

\* new PromiseAdapter(create, resolve, reject).
PromiseAdapter(create, resolve, reject) ==
    IF ~IsFunction(create)
    THEN Thrown("Adapter requires a function to create a promise.")
    ELSE IF ~IsFunction(resolve)
    THEN Thrown("Adapter requires a function to resolve a promise.")
    ELSE IF ~IsFunction(reject)
    THEN Thrown("Adapter requires a function to reject a promise.")
    ELSE Val("adapter", [create |-> create, resolve |-> resolve, reject |-> reject])

\* The instance main returns: the operations, and the library or adapter
\* that $p creates deferreds with.
Instance(lib) ==
    Val("instance", [batch |-> "function", page |-> "function",
                     sequence |-> "function", stream |-> [read |-> "function"],
                     p |-> "function", lib |-> lib])

\* Mutant of main: any function passes for a promise library.
mainAnyFunction(lib) ==
    IF IsAdapter(lib) \/ IsFunction(lib)
    THEN Instance(lib)
    ELSE Thrown("Invalid promise library specified.")

\* main(promiseLib): an adapter, or a callable deferred factory that exposes
\* resolve and reject, gives an instance; anything else is refused.
main(lib) ==
    IF IsAdapter(lib) \/ (IsFunction(lib) /\ lib.v.resolve /\ lib.v.reject)
    THEN Instance(lib)
    ELSE Thrown("Invalid promise library specified.")

\* Mutant of P: what create returned is wrapped in a deferred of the library.
PWrapped(instance, executor) == Val("deferred", <<>>)

\* inst.$p(executor): the adapter's create(executor), or new lib(executor).
P(instance, executor) ==
    IF IsAdapter(instance.v.lib)
    THEN instance.v.lib.v.create.v.returns
    ELSE instance.v.lib.v.returns

\* What the tests pass for create, resolve and reject, and for the library.
AdapterArgs == {UNDEF, Dummy, Returns123}
LibraryArgs == {UNDEF, Num(123), Dummy, HalfLib, PromiseLib}

NewAdapter ==
    /\ \E create \in AdapterArgs, resolve \in AdapterArgs, reject \in AdapterArgs :
         adapter' = [args |-> <<create, resolve, reject>>,
                     out |-> PromiseAdapter(create, resolve, reject)]
    /\ UNCHANGED <<inst, made, runVars, fleetVars>>

Main ==
    /\ \E lib \in LibraryArgs \cup (IF IsAdapter(adapter.out) THEN {adapter.out} ELSE {}) :
         inst' = [args |-> <<lib>>, out |-> main(lib)]
    /\ UNCHANGED <<adapter, made, runVars, fleetVars>>

CallP ==
    /\ IsInstance(inst.out)
    /\ made' = [args |-> <<inst.out, Dummy>>, out |-> P(inst.out, Dummy)]
    /\ UNCHANGED <<adapter, inst, runVars, fleetVars>>

LibNext ==
    \/ NewAdapter
    \/ Main
    \/ CallP

LibSpec == Init /\ [][LibNext]_vars

\* ------------------------------------------------------------ several runs

\* The source calls followed in each of the runs.
MaxRunCalls == 2

\* The limits the runs are started with: none, or one the run can reach.
RunLimits == {0, MaxRunCalls}

\* What the source of a run responds with: a value, or a failure.
Responses(kind) ==
    (IF kind = "sequence" THEN {UNDEF, Num(0), Num(1)}
                          ELSE {UNDEF, Num(42), Arr(<<1, 2>>), Arr(<<1, -2>>)})
    \cup {THROWN, REJECTED}

\* Mutant of Own: the variables are declared once, outside the function, and
\* every run works with the same ones.
OwnShared(r) == 1

\* The variables run r works with: they are declared inside sequence and
\* inside page, so each call has its own.
Own(r) == r

\* Where a piece of code leaves a run: its variables, and its outcome if it
\* settled the run.
Going(L) == [locals |-> L, out |-> NoOutcome]
Done(L, out) == [locals |-> L, out |-> out]

\* sequence: success().
SeqResult(L) ==
    IF L.track
    THEN Outcome("resolved", NoNumber, NoNumber, L.result, NoNumber, NoNumber)
    ELSE Outcome("resolved", NoNumber, NoNumber, <<>>, L.idx, NoNumber)

\* page: success().
PageResult(L) == Outcome("resolved", NoNumber, NoNumber, <<>>, L.total, L.idx)

\* fail(reason, code): reason.index = idx.
Failure(L, code) == Outcome("rejected", code, L.idx, <<>>, NoNumber, NoNumber)

\* next(): the index moves on, and the run ends if it reached the limit.
RunNext(kind, L) ==
    LET L1 == [L EXCEPT !.idx = NextIdx(@)] IN
    IF LimitReached(L.limit, L1.idx)
    THEN Done(L1, IF kind = "sequence" THEN SeqResult(L1) ELSE PageResult(L1))
    ELSE Going(L1)

\* sequence without dest: the success callback.
SeqRespond(L, value) ==
    LET L1 == [L EXCEPT !.data = value] IN
    IF IsUndefined(value)
    THEN Done(L1, SeqResult(L1))
    ELSE RunNext("sequence",
                 [L1 EXCEPT !.result = IF L.track THEN Append(@, value) ELSE @])

\* page without dest: the success callback, with the batch of the page.
PageRespond(L, value) ==
    IF IsUndefined(value)
    THEN Done(L, PageResult(L))
    ELSE IF IsArray(value)
    THEN IF BatchSucceeds(value)
         THEN LET outcome == BatchOutcome(value) IN
              RunNext("page", [L EXCEPT !.request = NextRequest(value, outcome),
                                        !.total = AddTotal(@, outcome)])
         ELSE Done(L, Failure(L, 0))
    ELSE Done(L, Failure(L, 5))

\* What the code of a run does with the response to its source call.
Respond(kind, L, response) ==
    IF response \in {THROWN, REJECTED}
    THEN LET isRej == IsRejection(IF response = REJECTED THEN "rejected" ELSE "thrown") IN
         Done(L, Failure(L, IF kind = "sequence" THEN SeqSourceCode(isRej)
                                                 ELSE PageSourceCode(isRej)))
    ELSE IF kind = "sequence" THEN SeqRespond(L, response)
                              ELSE PageRespond(L, response)

\* The arguments of the source call loop(idx) makes.
SourceCall(kind, L) ==
    [idx |-> L.idx, data |-> IF kind = "sequence" THEN L.data ELSE L.request]

\* A run after one more response: its variables, its outcome and its source
\* calls, the next one among them unless the run settled (or was followed
\* for MaxRunCalls source calls already).
After(kind, st, response) ==
    LET s == Respond(kind, st.locals, response) IN
    [locals |-> s.locals, out |-> s.out,
     calls |-> IF s.out = NoOutcome /\ Len(st.calls) < MaxRunCalls
               THEN Append(st.calls, SourceCall(kind, s.locals))
               ELSE st.calls]

\* A run as the call of sequence or page leaves it: loop(0) has called the
\* source.
Begun(kind, limit, track) ==
    LET L == Locals(NormalLimit(limit), track) IN
    [locals |-> L, out |-> NoOutcome, calls |-> <<SourceCall(kind, L)>>]

\* Run r waits for the response to a source call.
Awaiting(r) ==
    /\ seen[r].kind # "none"
    /\ seen[r].out = NoOutcome
    /\ Len(seen[r].calls) > Len(seen[r].responses)

RunStart ==
    /\ \E r \in RunIds, kind \in {"sequence", "page"}, limit \in RunLimits,
          track \in BOOLEAN :
         /\ seen[r].kind = "none"
         /\ kind = "page" => ~track
         /\ LET b == Begun(kind, limit, track) IN
            /\ runs' = [runs EXCEPT ![Own(r)] = b.locals]
            /\ seen' = [seen EXCEPT ![r] = Seen(kind, limit, track, b.calls, <<>>, b.out)]
    /\ UNCHANGED <<runVars, libVars>>

RunSourceSettled ==
    /\ \E r \in RunIds :
         /\ Awaiting(r)
         /\ \E response \in Responses(seen[r].kind) :
              LET a == After(seen[r].kind,
                             [locals |-> runs[Own(r)], out |-> seen[r].out,
                              calls |-> seen[r].calls],
                             response)
              IN
              /\ runs' = [runs EXCEPT ![Own(r)] = a.locals]
              /\ seen' = [seen EXCEPT ![r] = [@ EXCEPT !.calls = a.calls,
                                                      !.responses = Append(@, response),
                                                      !.out = a.out]]
    /\ UNCHANGED <<runVars, libVars>>

RunsNext ==
    \/ RunStart
    \/ RunSourceSettled

RunsSpec == Init /\ [][RunsNext]_vars

Next ==
    \/ Sequence
    \/ SeqLoop
    \/ SeqSourceResolved
    \/ SeqSourceRejected
    \/ SeqDestResolved
    \/ SeqDestRejected
    \/ SeqYield
    \/ Page
    \/ PageLoop
    \/ PageSourceResolved
    \/ PageSourceRejected
    \/ PageBatchResolved
    \/ PageBatchRejected
    \/ PageDestResolved
    \/ PageDestRejected

Spec == Init /\ [][Next]_vars

\* The run under the conditions its progress depends on: synchronous code
\* runs on, the scheduler runs the continuations handed to it, and every
\* deferred a callback or a batch returned settles.  At most one of these is
\* due at a time, so fairness of the next step says it.  The clock decides
\* no branch of the code, so it is left standing here.
FairNext ==
    \/ Sequence /\ UNCHANGED now
    \/ SeqLoop /\ UNCHANGED now
    \/ SeqSourceResolved /\ UNCHANGED now
    \/ SeqSourceRejected /\ UNCHANGED now
    \/ SeqDestResolved /\ UNCHANGED now
    \/ SeqDestRejected /\ UNCHANGED now
    \/ SeqYield /\ UNCHANGED now
    \/ Page /\ UNCHANGED now
    \/ PageLoop /\ UNCHANGED now
    \/ PageSourceResolved /\ UNCHANGED now
    \/ PageSourceRejected /\ UNCHANGED now
    \/ PageBatchResolved /\ UNCHANGED now
    \/ PageBatchRejected /\ UNCHANGED now
    \/ PageDestResolved /\ UNCHANGED now
    \/ PageDestRejected /\ UNCHANGED now

FairSpec == Init /\ [][FairNext]_vars /\ WF_vars(FairNext)

\* ----------------------------------------------------------------- claims

\* The deferred returned to the caller is settled by the first call of
\* resolve or reject.
Resolved == Len(settlements) >= 1 /\ settlements[1].state = "resolved"
Rejected == Len(settlements) >= 1 /\ settlements[1].state = "rejected"

\* The run was rejected, once, with an error of type err and reason code c.
RejectedWith(err, c) ==
    /\ Len(settlements) = 1
    /\ settlements[1].state = "rejected"
    /\ settlements[1].err = err
    /\ settlements[1].code = c

\* A value a callback resolved with, as opposed to a history marker.
IsValue(v) ==
    v.t \in {"undefined", "null", "number", "boolean", "string", "array", "batch"}

\* The calls of history h that are still unsettled.
Outstanding(h) == {k \in DOMAIN h : h[k].res = PENDING}

\* C1: in every run of sequence and of page the source is called with the
\* indices 0, 1, 2, ... in this order, with no gap and no repeat.
C1_SourceIndexOrder ==
    \A k \in DOMAIN srcCalls : srcCalls[k].idx = k - 1

C1_Witness ==
    /\ cfg.kind = "page"
    /\ Len(srcCalls) = 3
    /\ srcCalls[3].idx = 2

\* C2: with a limit L > 0 the source is called at most L times and never
\* with index L, and a run that resolves has called it exactly L times
\* unless a source call resolved with undefined.
C2_LimitLaw ==
    cfg.kind \in {"sequence", "page"} /\ cfg.limitArg > 0 =>
        /\ Len(srcCalls) <= cfg.limitArg
        /\ \A k \in DOMAIN srcCalls : srcCalls[k].idx # cfg.limitArg
        /\ Resolved =>
             \/ Len(srcCalls) = cfg.limitArg
             \/ \E k \in DOMAIN srcCalls : srcCalls[k].res = UNDEF

C2_Witness ==
    /\ cfg.kind = "sequence"
    /\ cfg.limitArg = 2
    /\ Resolved
    /\ Len(srcCalls) = 2
    /\ \A k \in DOMAIN srcCalls : srcCalls[k].res # UNDEF

\* C3: in a sequence with track = false, when the source resolves with
\* undefined at iteration k the run resolves with total = k, dest is not
\* called for iteration k and the source is not called again.
C3_UndefinedEndsSequence ==
    cfg.kind = "sequence" /\ ~cfg.track =>
        \A k \in DOMAIN srcCalls :
            srcCalls[k].res = UNDEF =>
                /\ Len(settlements) = 1
                /\ settlements[1].state = "resolved"
                /\ settlements[1].total = srcCalls[k].idx
                /\ k = Len(srcCalls)
                /\ \A j \in DOMAIN destCalls : destCalls[j].idx # srcCalls[k].idx

C3_Witness ==
    /\ cfg.kind = "sequence"
    /\ ~cfg.track
    /\ cfg.hasDest
    /\ cfg.limit = 0
    /\ Len(srcCalls) = 3
    /\ srcCalls[3].res = UNDEF
    /\ Len(destCalls) = 2
    /\ Resolved

\* C4: at most one call of a user callback is outstanding: the source is
\* not called again while a source or dest call is unsettled, and dest is
\* not called for an iteration whose source call is unsettled.
C4_OneCallOutstanding ==
    /\ Cardinality(Outstanding(srcCalls)) + Cardinality(Outstanding(destCalls)) <= 1
    /\ \A k \in Outstanding(srcCalls) :
         /\ k = Len(srcCalls)
         /\ \A j \in DOMAIN destCalls : destCalls[j].idx < srcCalls[k].idx
    /\ \A j \in Outstanding(destCalls) :
         /\ j = Len(destCalls)
         /\ \A k \in DOMAIN srcCalls : srcCalls[k].idx <= destCalls[j].idx

C4_Witness ==
    /\ cfg.kind = "page"
    /\ Len(srcCalls) = 2
    /\ Len(destCalls) = 2
    /\ destCalls[1].res = RESOLVED
    /\ destCalls[2].res = PENDING

\* C5: when dest is supplied, every iteration whose source value lets the
\* run go on (sequence: a value other than undefined; page: a page whose
\* batch succeeded) has exactly one dest call, with the index of the
\* iteration and its data (sequence: the value; page: the batch outcome);
\* dest is called only after the source call of its iteration resolved, and
\* while a deferred returned by dest is unsettled the next source call is
\* not made.
C5_Pairing ==
    cfg.hasDest =>
        /\ cfg.kind = "sequence" =>
             \A k \in DOMAIN srcCalls :
                 IsValue(srcCalls[k].res) /\ ~IsUndefined(srcCalls[k].res) =>
                     /\ Cardinality({j \in DOMAIN destCalls :
                                        destCalls[j].idx = srcCalls[k].idx}) = 1
                     /\ \A j \in DOMAIN destCalls :
                            destCalls[j].idx = srcCalls[k].idx =>
                                destCalls[j].data = srcCalls[k].res
        /\ cfg.kind = "page" =>
             \A b \in DOMAIN batches :
                 IsValue(batches[b].res) =>
                     /\ batches[b].res = BatchOutcome(batches[b].data)
                     /\ Cardinality({j \in DOMAIN destCalls :
                                        destCalls[j].idx = batches[b].idx}) = 1
                     /\ \A j \in DOMAIN destCalls :
                            destCalls[j].idx = batches[b].idx =>
                                destCalls[j].data = batches[b].res
        /\ \A j \in DOMAIN destCalls :
             /\ \E k \in DOMAIN srcCalls :
                    /\ srcCalls[k].idx = destCalls[j].idx
                    /\ IsValue(srcCalls[k].res)
                    /\ ~IsUndefined(srcCalls[k].res)
             /\ cfg.kind = "page" =>
                    \E b \in DOMAIN batches, k \in DOMAIN srcCalls :
                        /\ batches[b].idx = destCalls[j].idx
                        /\ srcCalls[k].idx = destCalls[j].idx
                        /\ batches[b].data = srcCalls[k].res
                        /\ IsValue(batches[b].res)
             /\ destCalls[j].res = PENDING =>
                    \A k \in DOMAIN srcCalls : srcCalls[k].idx <= destCalls[j].idx

C5_Witness ==
    /\ cfg.kind = "sequence"
    /\ cfg.hasDest
    /\ Len(srcCalls) = 3
    /\ Len(destCalls) = 2
    /\ destCalls[1].res = RESOLVED
    /\ destCalls[2].res = RETURNED
    /\ destCalls[1].data # destCalls[2].data
    /\ srcCalls[3].res = PENDING

\* A source call that failed: it threw, its deferred rejected, or (page) it
\* resolved with a value that is neither undefined nor an array.
SourceFailed(k) ==
    \/ srcCalls[k].res \in {THROWN, REJECTED}
    \/ cfg.kind = "page" /\ srcCalls[k].res.t \in {"null", "number"}

\* The run was rejected and never resolved.
OnlyRejected ==
    /\ Rejected
    /\ \A s \in DOMAIN settlements : settlements[s].state = "rejected"

\* C6: once a source call or a dest call fails, or (page) the batch rejects
\* or the source yields a non-array, the run rejects, it does not resolve,
\* and neither source nor dest is called again.
C6_FirstFailureEnds ==
    /\ \A k \in DOMAIN srcCalls :
         SourceFailed(k) =>
             /\ OnlyRejected
             /\ k = Len(srcCalls)
             /\ \A j \in DOMAIN destCalls : destCalls[j].idx < srcCalls[k].idx
    /\ \A j \in DOMAIN destCalls :
         destCalls[j].res \in {THROWN, REJECTED} =>
             /\ OnlyRejected
             /\ j = Len(destCalls)
             /\ \A k \in DOMAIN srcCalls : srcCalls[k].idx <= destCalls[j].idx
    /\ \A b \in DOMAIN batches :
         batches[b].res = REJECTED =>
             /\ OnlyRejected
             /\ \A k \in DOMAIN srcCalls : srcCalls[k].idx <= batches[b].idx
             /\ \A j \in DOMAIN destCalls : destCalls[j].idx < batches[b].idx

C6_Witness ==
    /\ cfg.kind = "sequence"
    /\ Len(srcCalls) = 2
    /\ Len(destCalls) = 2
    /\ destCalls[1].res = RESOLVED
    /\ destCalls[2].res = THROWN
    /\ Rejected
    /\ pending = {}

\* C7: a sequence fails with code 0 when the deferred of the source
\* rejects, 1 when the source throws, 2 when the deferred of dest rejects,
\* 3 when dest throws, and with no other code.
C7_SequenceCodes ==
    cfg.kind = "sequence" =>
        /\ \A k \in DOMAIN srcCalls :
             /\ srcCalls[k].res = REJECTED => RejectedWith("SequenceError", 0)
             /\ srcCalls[k].res = THROWN => RejectedWith("SequenceError", 1)
        /\ \A j \in DOMAIN destCalls :
             /\ destCalls[j].res = REJECTED => RejectedWith("SequenceError", 2)
             /\ destCalls[j].res = THROWN => RejectedWith("SequenceError", 3)
        /\ \A s \in DOMAIN settlements :
             settlements[s].err = "SequenceError" => settlements[s].code \in 0..3

C7_Witness ==
    /\ cfg.kind = "sequence"
    /\ Len(srcCalls) = 2
    /\ srcCalls[2].res = THROWN
    /\ RejectedWith("SequenceError", 1)

\* C8 as stated: a page whose source throws, or whose source returns a
\* deferred that rejects, fails with code 1.
C8_Original ==
    cfg.kind = "page" =>
        \A k \in DOMAIN srcCalls :
            srcCalls[k].res \in {THROWN, REJECTED} => RejectedWith("PageError", 1)

\* C8 as amended: a page fails with code 1 when the deferred returned by
\* the source rejects, and with code 2 when the source throws.
C8_PageSourceCodes ==
    cfg.kind = "page" =>
        \A k \in DOMAIN srcCalls :
            /\ srcCalls[k].res = REJECTED => RejectedWith("PageError", 1)
            /\ srcCalls[k].res = THROWN => RejectedWith("PageError", 2)

C8_Witness ==
    /\ cfg.kind = "page"
    /\ Len(srcCalls) = 2
    /\ srcCalls[2].res = THROWN
    /\ RejectedWith("PageError", 2)

\* The batch outcome of the page with index i.
OutcomeOf(i) ==
    LET b == CHOOSE b \in DOMAIN batches : batches[b].idx = i IN batches[b].res

\* C9: a page whose batch rejects fails with code 0 and with neither source
\* nor dest set; a dest that throws fails it with code 4, a dest whose
\* deferred rejects with code 3, both with dest set to the batch outcome of
\* that page.
C9_PageBatchAndDestCodes ==
    cfg.kind = "page" =>
        /\ \A b \in DOMAIN batches :
             batches[b].res = REJECTED =>
                 /\ RejectedWith("PageError", 0)
                 /\ ~settlements[1].srcSet
                 /\ ~settlements[1].destSet
        /\ \A j \in DOMAIN destCalls :
             destCalls[j].res \in {THROWN, REJECTED} =>
                 /\ RejectedWith("PageError", IF destCalls[j].res = THROWN THEN 4 ELSE 3)
                 /\ settlements[1].destSet
                 /\ ~settlements[1].srcSet
                 /\ \E b \in DOMAIN batches : batches[b].idx = destCalls[j].idx
                 /\ settlements[1].dest = OutcomeOf(destCalls[j].idx)
                 /\ settlements[1].dest.t = "batch"

C9_Witness ==
    /\ cfg.kind = "page"
    /\ Len(destCalls) = 2
    /\ destCalls[2].res = REJECTED
    /\ RejectedWith("PageError", 3)
    /\ settlements[1].dest = BatchOutcome(Arr(<<1, 2>>))

\* C10: a page source that resolves at page i with a value that is neither
\* undefined nor an array (null included) fails the run with code 5,
\* index i and source set to the batch outcome of page i - 1 (undefined
\* when i = 0); neither batch nor dest is invoked for page i.
C10_NonArrayPage ==
    cfg.kind = "page" =>
        \A k \in DOMAIN srcCalls :
            srcCalls[k].res.t \in {"null", "number"} =>
                /\ RejectedWith("PageError", 5)
                /\ settlements[1].index = srcCalls[k].idx
                /\ settlements[1].srcSet
                /\ settlements[1].source =
                       IF srcCalls[k].idx = 0 THEN UNDEF
                       ELSE OutcomeOf(srcCalls[k].idx - 1)
                /\ \A b \in DOMAIN batches : batches[b].idx # srcCalls[k].idx
                /\ \A j \in DOMAIN destCalls : destCalls[j].idx # srcCalls[k].idx

C10_Witness ==
    /\ cfg.kind = "page"
    /\ Len(srcCalls) = 2
    /\ srcCalls[2].res = NULL
    /\ RejectedWith("PageError", 5)
    /\ settlements[1].source = BatchOutcome(Arr(<<1, 2>>))

\* The iterations that were completed: the source resolved, the page (if
\* any) was batched and dest (if any) returned or its deferred resolved.
Completed ==
    IF cfg.hasDest
    THEN Cardinality({j \in DOMAIN destCalls : destCalls[j].res \in {RETURNED, RESOLVED}})
    ELSE IF cfg.kind = "page"
    THEN Cardinality({b \in DOMAIN batches : IsValue(batches[b].res)})
    ELSE Cardinality({k \in DOMAIN srcCalls :
                         IsValue(srcCalls[k].res) /\ ~IsUndefined(srcCalls[k].res)})

\* The settlements that carry a SequenceError or a PageError.
DriverErrors ==
    {s \in DOMAIN settlements : settlements[s].err \in {"SequenceError", "PageError"}}

\* C11: the index of a SequenceError or PageError is the index of the
\* failing iteration: the index its source call (and dest call) was given,
\* which is the number of iterations completed before it.
C11_ErrorIndex ==
    /\ \A s \in DriverErrors : settlements[s].index = Completed
    /\ \A k \in DOMAIN srcCalls :
         SourceFailed(k) => Rejected /\ settlements[1].index = srcCalls[k].idx
    /\ \A j \in DOMAIN destCalls :
         destCalls[j].res \in {THROWN, REJECTED} =>
             Rejected /\ settlements[1].index = destCalls[j].idx
    /\ \A b \in DOMAIN batches :
         batches[b].res = REJECTED =>
             Rejected /\ settlements[1].index = batches[b].idx

C11_Witness ==
    /\ cfg.kind = "sequence"
    /\ cfg.hasDest
    /\ Len(destCalls) = 3
    /\ destCalls[3].res = THROWN
    /\ Rejected
    /\ settlements[1].index = 2

\* C12: a SequenceError or PageError has exactly one of source and dest
\* set, except a PageError with code 0, which has neither; source is set
\* exactly when the source side failed and dest exactly when dest failed.
C12_ErrorShape ==
    \A s \in DriverErrors :
        LET r == settlements[s] IN
        /\ IF r.err = "PageError" /\ r.code = 0
           THEN ~r.srcSet /\ ~r.destSet
           ELSE r.srcSet # r.destSet
        /\ r.srcSet <=> \E k \in DOMAIN srcCalls : SourceFailed(k)
        /\ r.destSet <=> \E j \in DOMAIN destCalls : destCalls[j].res \in {THROWN, REJECTED}

C12_Witness ==
    /\ cfg.kind = "page"
    /\ Len(srcCalls) = 2
    /\ srcCalls[2].res = REJECTED
    /\ Rejected
    /\ settlements[1].srcSet
    /\ ~settlements[1].destSet
    /\ settlements[1].source = BatchOutcome(Arr(<<1, 2>>))

\* The number of values in the pages h[1], ..., h[n].
RECURSIVE SumOfPages(_, _)
SumOfPages(h, n) == IF n = 0 THEN 0 ELSE SumOfPages(h, n - 1) + Len(h[n].data.v)

\* C13: a page run that resolves reports as pages the number of pages that
\* were batched (and handed to dest, if there is one) and as total the sum
\* of their lengths; a source that resolves with undefined at page k makes
\* pages = k.
C13_PageSuccessResult ==
    cfg.kind = "page" /\ Resolved =>
        /\ Len(settlements) = 1
        /\ \A b \in DOMAIN batches : IsValue(batches[b].res)
        /\ settlements[1].pages = Len(batches)
        /\ cfg.hasDest => settlements[1].pages = Len(destCalls)
        /\ settlements[1].total = SumOfPages(batches, Len(batches))
        /\ \A k \in DOMAIN srcCalls :
             srcCalls[k].res = UNDEF => settlements[1].pages = srcCalls[k].idx

C13_Witness ==
    /\ cfg.kind = "page"
    /\ cfg.hasDest
    /\ cfg.limit = 0
    /\ Resolved
    /\ Len(srcCalls) = 3
    /\ srcCalls[3].res = UNDEF
    /\ settlements[1].pages = 2
    /\ settlements[1].total = 2
    /\ Len(batches[1].data.v) # Len(batches[2].data.v)

\* What JavaScript makes of obj[name] = value, of Object.defineProperty(obj,
\* name, {enumerable: true}) and of Object.keys(obj), as far as the property
\* `name` goes.
Assigned(obj, name, value) ==
    IF obj[name \o "Attr"].writable THEN [obj EXCEPT ![name] = value] ELSE obj
Redefined(obj, name) ==
    IF obj[name \o "Attr"].configurable
    THEN [obj EXCEPT ![name \o "Attr"] = OpenAttr] ELSE obj
Enumerated(obj, name) == obj[name \o "Attr"].enumerable

\* C14: a sequence with track = true resolves with the array of the values
\* the source resolved with, element i being the value of index i, so its
\* length is the number of source results other than undefined; its
\* duration property is not enumerable and can be neither overwritten nor
\* reconfigured.
C14_TrackedResult ==
    cfg.kind = "sequence" /\ cfg.track /\ Resolved =>
        LET r == settlements[1] IN
        /\ r.tracked
        /\ Len(r.items) = Cardinality({k \in DOMAIN srcCalls :
                                          IsValue(srcCalls[k].res)
                                          /\ ~IsUndefined(srcCalls[k].res)})
        /\ \A i \in DOMAIN r.items :
             srcCalls[i].idx = i - 1 /\ r.items[i] = srcCalls[i].res
        /\ r.duration >= 0
        /\ ~Enumerated(r, "duration")
        /\ Assigned(r, "duration", r.duration + 1) = r
        /\ Redefined(r, "duration") = r

C14_Witness ==
    /\ cfg.kind = "sequence"
    /\ cfg.track
    /\ cfg.limit = 0
    /\ Resolved
    /\ Len(srcCalls) = 3
    /\ settlements[1].items = <<NULL, Str("")>>
    /\ settlements[1].duration = 1

\* C15: in a sequence an iteration that completed synchronously hands the
\* next index to the scheduler (a resolve().then continuation) and unwinds;
\* loop is never entered from within loop, so at most one loop frame is on
\* the stack however many iterations have run.
C15_StackGuard ==
    cfg.kind = "sequence" =>
        /\ depth <= 1
        /\ pc = "loop" => depth = 1
        /\ \A c \in pending :
             c.kind = "yield" =>
                 /\ pc = "idle"
                 /\ depth = 0
                 /\ c.idx = idx
                 /\ c.idx = Len(srcCalls)
                 /\ pending = {c}

C15_Witness ==
    /\ cfg.kind = "sequence"
    /\ \E c \in pending : c.kind = "yield" /\ c.idx = 2
    /\ depth = 0
    /\ Len(srcCalls) = 2

\* C16: sequence or page called with a source that is not a function returns
\* a deferred rejected with TypeError "Parameter 'source' must be a
\* function."; nothing is thrown, the executor never runs (no loop, nothing
\* scheduled), and neither source nor dest is ever called.
C16_SourceNotFunction ==
    cfg.kind # "none" /\ ~cfg.sourceOk =>
        /\ Len(settlements) = 1
        /\ settlements[1].state = "rejected"
        /\ settlements[1].err = "TypeError"
        /\ settlements[1].error = "Parameter 'source' must be a function."
        /\ settlements[1].code = NoNumber
        /\ srcCalls = <<>>
        /\ destCalls = <<>>
        /\ batches = <<>>
        /\ pending = {}
        /\ pc = "idle"
        /\ depth = 0

C16_Witness ==
    /\ cfg.kind = "page"
    /\ ~cfg.sourceOk
    /\ cfg.hasDest
    /\ settlements = <<TypeErrorRejection>>

\* The delay law over one callback's call history: no delay at index 0, and
\* from index 1 on the clock at this call minus the clock at the call before.
DelayLaw(h) ==
    \A k \in DOMAIN h :
        IF h[k].idx = 0
        THEN h[k].delay = NoNumber
        ELSE /\ k > 1
             /\ h[k - 1].idx = h[k].idx - 1
             /\ h[k].delay = h[k].at - h[k - 1].at
             /\ h[k].delay >= 0

\* C17: in sequence and in page the delay passed to source, and the one
\* passed to dest, is undefined at index 0 and otherwise the clock reading at
\* the start of this call minus the reading at the start of the previous call
\* of the same callback, which is never negative.
C17_DelayArgument == DelayLaw(srcCalls) /\ DelayLaw(destCalls)

C17_Witness ==
    /\ Len(destCalls) = 2
    /\ destCalls[1].at = 1
    /\ destCalls[2].delay = 0
    /\ Len(srcCalls) = 2
    /\ srcCalls[1].delay = NoNumber
    /\ srcCalls[2].delay = 1

\* What the caller asked for, read off the arguments as the contract reads
\* them: from the fields of the second argument when it is a non-null object
\* that is not callable, positionally otherwise.
Requested ==
    IF cfg.second.kind = "object"
    THEN [dest |-> cfg.second.dest, limit |-> cfg.second.limit, track |-> cfg.second.track]
    ELSE [dest |-> cfg.second.kind, limit |-> cfg.third, track |-> cfg.fourth]

\* C18: sequence(source, {dest, limit, track}) and page(source, {dest,
\* limit}) run with the object's fields exactly as the positional call with
\* the same values does, and any other second argument is taken
\* positionally: the run's dest, limit and track are the requested ones, so
\* the sink is called only if one was requested, the requested limit bounds
\* the source calls, and the outcome is tracked exactly if tracking was
\* requested.
C18_OptionsEquivalence ==
    cfg.kind # "none" =>
        /\ cfg.hasDest = (Requested.dest = "function")
        /\ cfg.limit = NormalLimit(Requested.limit)
        /\ cfg.track = (cfg.kind = "sequence" /\ Requested.track)
        /\ Requested.dest # "function" => destCalls = <<>>
        /\ Requested.limit > 0 => Len(srcCalls) <= Requested.limit
        /\ Resolved => settlements[1].tracked = cfg.track
        /\ Resolved /\ Requested.limit > 0 /\ Len(srcCalls) = Requested.limit =>
             \/ IsUndefined(srcCalls[Len(srcCalls)].res)
             \/ /\ Requested.dest = "function" => Len(destCalls) = Requested.limit
                /\ settlements[1].tracked => Len(settlements[1].items) = Requested.limit

C18_Witness ==
    /\ cfg.kind = "sequence"
    /\ cfg.second = Options("function", 2, TRUE)
    /\ cfg.third = 0
    /\ ~cfg.fourth
    /\ Resolved
    /\ Len(destCalls) = 2
    /\ Len(settlements[1].items) = 2

\* A value main can make deferreds with, as the contract has it: an adapter,
\* or a callable deferred factory with resolve and reject.
UsableLibrary(lib) ==
    \/ lib.t = "adapter"
    \/ lib.t = "function" /\ lib.v.resolve /\ lib.v.reject

\* C19: main throws "Invalid promise library specified." when its argument
\* is absent, is no function and no adapter (such as 123), or is a function
\* that is no usable deferred factory (such as an empty function); otherwise
\* it returns an instance whose batch, page, sequence, stream.read and $p are
\* functions.
C19_LibraryInit ==
    inst # NoCall =>
        LET lib == inst.args[1] IN
        IF UsableLibrary(lib)
        THEN /\ inst.out.t = "instance"
             /\ inst.out.v.batch = "function"
             /\ inst.out.v.page = "function"
             /\ inst.out.v.sequence = "function"
             /\ inst.out.v.stream.read = "function"
             /\ inst.out.v.p = "function"
        ELSE inst.out = Thrown("Invalid promise library specified.")

C19_Witness ==
    /\ inst.args = <<Dummy>>
    /\ inst.out = Thrown("Invalid promise library specified.")
    /\ made.args # <<>>
    /\ made.args[1].v.lib = PromiseLib

\* The first of create, resolve, reject that is no function, or "" if all
\* three are functions.
FirstMissing(args) ==
    IF args[1].t # "function" THEN "create"
    ELSE IF args[2].t # "function" THEN "resolve"
    ELSE IF args[3].t # "function" THEN "reject"
    ELSE ""

\* C20: new PromiseAdapter(create, resolve, reject) throws "Adapter requires
\* a function to <create | resolve | reject> a promise." for the first of the
\* three that is no function; with three functions it succeeds, and $p of an
\* instance initialised with that adapter returns exactly what create
\* returned.
C20_AdapterConstruction ==
    /\ adapter # NoCall =>
         IF FirstMissing(adapter.args) = ""
         THEN adapter.out.t = "adapter"
         ELSE adapter.out = Thrown("Adapter requires a function to "
                                      \o FirstMissing(adapter.args) \o " a promise.")
    /\ made # NoCall /\ made.args[1].v.lib.t = "adapter" =>
         made.out = made.args[1].v.lib.v.create.v.returns

C20_Witness ==
    /\ adapter.args = <<Dummy, Dummy, UNDEF>>
    /\ adapter.out = Thrown("Adapter requires a function to reject a promise.")
    /\ inst.args # <<>>
    /\ inst.args[1].t = "adapter"
    /\ inst.args[1].v.create = Returns123
    /\ made.args = <<inst.out, Dummy>>
    /\ made.out = Num(123)

\* C21: the data argument of source is undefined at index 0, and at index
\* i >= 1 it is the outcome of iteration i - 1: in sequence the value the
\* source resolved with at i - 1, in page the outcome of the batch of page
\* i - 1, which is also what dest was given at i - 1.
C21_LinkedData ==
    \A k \in DOMAIN srcCalls :
        IF srcCalls[k].idx = 0
        THEN srcCalls[k].data = UNDEF
        ELSE /\ k > 1
             /\ srcCalls[k - 1].idx = srcCalls[k].idx - 1
             /\ cfg.kind = "sequence" =>
                  /\ IsValue(srcCalls[k - 1].res)
                  /\ srcCalls[k].data = srcCalls[k - 1].res
             /\ cfg.kind = "page" =>
                  /\ \E b \in DOMAIN batches : batches[b].idx = srcCalls[k].idx - 1
                  /\ srcCalls[k].data = OutcomeOf(srcCalls[k].idx - 1)
                  /\ srcCalls[k].data.t = "batch"
                  /\ cfg.hasDest =>
                       \E j \in DOMAIN destCalls :
                           /\ destCalls[j].idx = srcCalls[k].idx - 1
                           /\ destCalls[j].data = srcCalls[k].data

C21_Witness ==
    /\ cfg.kind = "page"
    /\ cfg.hasDest
    /\ Len(srcCalls) = 3
    /\ srcCalls[1].res = Arr(<<1, 2>>)
    /\ srcCalls[2].data = BatchOutcome(Arr(<<1, 2>>))
    /\ srcCalls[2].res = Arr(<<>>)
    /\ srcCalls[3].data = BatchOutcome(Arr(<<>>))

\* The run has settled: resolve or reject was called.
Settled == Len(settlements) >= 1

\* C22: in every run of sequence and of page, whatever source and dest do,
\* resolve and reject are called at most once between them, and once the run
\* has settled no call of source or dest (and no batch) is started.
C22_SingleSettlement ==
    [][Settled =>
         /\ settlements' = settlements
         /\ Len(srcCalls') = Len(srcCalls)
         /\ Len(destCalls') = Len(destCalls)
         /\ Len(batches') = Len(batches)]_vars

\* A run that settled in the continuation of the second sink call, with
\* nothing left to run.
C22_Witness ==
    /\ Settled
    /\ Len(settlements) = 1
    /\ Len(srcCalls) = 2
    /\ Len(destCalls) = 2
    /\ destCalls[2].res \in {REJECTED, RESOLVED}
    /\ pending = {}
    /\ pc = "idle"

\* The run was started, with a source that is a function.
Started == cfg.kind # "none" /\ cfg.sourceOk

\* The source was called MaxCalls times and never ended the run: where the
\* exploration of a run without limit stops.
Unending == pc = "loop" /\ Len(srcCalls) = MaxCalls /\ cfg.limit = 0

\* C23: a started run of sequence or page whose callbacks and batches all
\* settle, and which has a limit or a source that at some index resolves
\* with undefined or fails, settles in the end; and until it has settled
\* there is always an iteration being run or a continuation outstanding.
C23_RunToSettlement ==
    /\ [](Started /\ ~Settled => pc = "loop" \/ pending # {})
    /\ Started ~> (Settled \/ Unending)

\* An unlimited run that the source ended at its third call, after deferreds
\* of source and dest had to settle on the way.
C23_Witness ==
    /\ Started
    /\ cfg.limit = 0
    /\ Resolved
    /\ Len(srcCalls) = 3
    /\ IsUndefined(srcCalls[3].res)
    /\ Len(destCalls) = 2
    /\ destCalls[1].res = RESOLVED
    /\ destCalls[2].res = RETURNED

RECURSIVE AloneFrom(_, _, _, _)
\* The run that started as st, after the responses from the k-th on, with
\* nothing else going on.
AloneFrom(kind, st, responses, k) ==
    IF k > Len(responses)
    THEN st
    ELSE AloneFrom(kind, After(kind, st, responses[k]), responses, k + 1)

\* Run r as it would stand had it run alone and got the same responses.
Alone(r) ==
    AloneFrom(seen[r].kind, Begun(seen[r].kind, seen[r].limit, seen[r].track),
              seen[r].responses, 1)

\* C24: runs of sequence and page started on one library instance and
\* interleaved in any way do not affect one another: the indices and the
\* linked data each run passes to its source, and its outcome with the
\* tracked values or the totals in it, are those of the same run alone with
\* the same responses.
C24_RunIsolation ==
    \A r \in RunIds :
        seen[r].kind # "none" =>
            /\ seen[r].calls = Alone(r).calls
            /\ seen[r].out = Alone(r).out

\* A tracking sequence and a page that were in flight together, both with a
\* second source call made, and both settled since.
C24_Witness ==
    /\ seen[1].kind = "sequence"
    /\ seen[1].track
    /\ seen[1].calls = <<[idx |-> 0, data |-> UNDEF], [idx |-> 1, data |-> Num(1)]>>
    /\ seen[1].out.state = "resolved"
    /\ seen[1].out.items = <<Num(1), Num(0)>>
    /\ seen[2].kind = "page"
    /\ Len(seen[2].calls) = 2
    /\ seen[2].calls[2] = [idx |-> 1, data |-> BatchOutcome(Arr(<<1, 2>>))]
    /\ seen[2].out.state = "resolved"
    /\ seen[2].out.total = 2
    /\ seen[2].out.pages = 1

\* The values other than undefined that a test by truthiness takes for
\* "no value": null, 0, false and the empty string.
FalsyValues == {NULL, Num(0), Bool(FALSE), Str("")}

\* C25: in a sequence a source result of null, 0, false or "" is a value
\* like any other: it is tracked, passed to dest, counted in total and
\* passed as data to the next source call, and the run goes on; short of its
\* limit the run resolves only when the source resolves with undefined.
C25_OnlyUndefinedEnds ==
    cfg.kind = "sequence" =>
        /\ \A k \in DOMAIN srcCalls :
             srcCalls[k].res \in FalsyValues =>
                 /\ cfg.track => Len(result) >= k /\ result[k] = srcCalls[k].res
                 /\ cfg.hasDest =>
                      /\ Len(destCalls) >= k
                      /\ destCalls[k].idx = srcCalls[k].idx
                      /\ destCalls[k].data = srcCalls[k].res
                 /\ k < Len(srcCalls) => srcCalls[k + 1].data = srcCalls[k].res
                 /\ Resolved /\ ~cfg.track => settlements[1].total >= k
                 /\ Resolved /\ k = Len(srcCalls) =>
                      cfg.limit > 0 /\ Len(srcCalls) = cfg.limit
        /\ Resolved /\ ~(cfg.limit > 0 /\ Len(srcCalls) = cfg.limit) =>
             srcCalls[Len(srcCalls)].res = UNDEF

\* An unlimited sequence with tracking and a dest that took 0 and false for
\* values and ended on undefined.
C25_Witness ==
    /\ cfg.kind = "sequence"
    /\ cfg.track
    /\ cfg.hasDest
    /\ cfg.limit = 0
    /\ Resolved
    /\ Len(srcCalls) = 3
    /\ srcCalls[3].res = UNDEF
    /\ settlements[1].items = <<Num(0), Bool(FALSE)>>
    /\ destCalls[1].data = Num(0)
    /\ destCalls[2].data = Bool(FALSE)
    /\ srcCalls[3].data = Bool(FALSE)

====
